---- MODULE Spec2Model ----
(***************************************************************************)
(* Multi-AI consultation: the orchestrator loop of multi_ai_consultation.py *)
(* (backend probing at import, the persona round protocol, the ethical     *)
(* pre-filter, persistence on quit and on keyboard interruption).          *)
(*                                                                         *)
(* Texts are sequences of symbols.  User lines are spelled letter by       *)
(* letter (one-character strings), so lower(), strip() and the substring   *)
(* test `in` are computed on them.  A long literal of the source whose     *)
(* inner structure no operation inspects is one symbol holding the literal.*)
(* The timestamp add_message stores is written once from the wall clock    *)
(* and never read back by the program; a transcript entry is modelled as   *)
(* its (speaker, message) pair.                                            *)
(***************************************************************************)
EXTENDS Integers, Sequences, FiniteSets, TLC

\* ------------------------------------------------------------------ bounds

\* Handled (non-empty, non-quit) user inputs, over all processes.
MaxQueries == 1
\* generate_response calls, over all processes, in which a backend
\* misbehaves (a raise, a timeout, a nonzero exit, a blank output).
MaxFaults == 1
\* Wall clock, in half seconds.
MaxClock == 2
\* Processes started one after the other (SpecSessions only).
MaxSessions == 2

\* Clock ticks per second: the clock is finer than the one-second
\* resolution of strftime("%Y%m%d_%H%M%S").
TicksPerSecond == 2

\* Longest text handed to split_into_chunks on its own, in characters.
MaxTextLen == 5
\* Largest chunk_size handed to split_into_chunks on its own.
MaxChunkSize == 2
\* The chunk_size add_legal_document passes (500 words in the source),
\* scaled to texts of a few words.
DefaultChunkSize == 2
\* Chunks a knowledge base holds at most.
MaxChunks == 3

\* ------------------------------------------------------------------- texts

UpperLetters ==
  <<"A","B","C","D","E","F","G","H","I","J","K","L","M",
    "N","O","P","Q","R","S","T","U","V","W","X","Y","Z">>

LowerLetters ==
  <<"a","b","c","d","e","f","g","h","i","j","k","l","m",
    "n","o","p","q","r","s","t","u","v","w","x","y","z">>

Whitespace == {" ", "\n", "\t"}

\* str.lower() on one symbol.
LowerSym(c) ==
  IF \E i \in 1..Len(UpperLetters) : UpperLetters[i] = c
  THEN LowerLetters[CHOOSE i \in 1..Len(UpperLetters) : UpperLetters[i] = c]
  ELSE c

\* str.lower()
Lower(s) == [i \in 1..Len(s) |-> LowerSym(s[i])]

\* The line as typed, nothing removed.
Strip_nothing(s) == s

\* str.strip(): leading and trailing whitespace removed.
Strip(s) ==
  LET keep == {i \in 1..Len(s) : s[i] \notin Whitespace}
  IN  IF keep = {} THEN << >>
      ELSE LET lo == CHOOSE i \in keep : \A j \in keep : i <= j
               hi == CHOOSE i \in keep : \A j \in keep : j <= i
           IN  SubSeq(s, lo, hi)

\* Python's `pat in s` on strings: pat occurs as a contiguous run of s.
Contains(s, pat) ==
  \E i \in 0..(Len(s) - Len(pat)) : SubSeq(s, i + 1, i + Len(pat)) = pat

\* ----------------------------------------------------------------- startup

\* Module-level backend probing: `client` is whether `import ollama`
\* succeeds, `list` the outcome of ollama.list(), `cli` the outcome of
\* subprocess.run(['ollama', 'list']).  A probe the code does not reach is
\* "skipped".
ProbeOutcomes ==
  { [client |-> TRUE,  list |-> "ok",      cli |-> "skipped"] }
  \cup { [client |-> TRUE,  list |-> "raise",   cli |-> c] :
           c \in {"zero", "nonzero", "raise"} }
  \cup { [client |-> FALSE, list |-> "skipped", cli |-> c] :
           c \in {"zero", "nonzero", "raise"} }

\* The probing with the availability flag left set where the scripted
\* stand-in is forced.
SelectBackend_flag_left_set(p) ==
  IF p.client
  THEN IF p.list = "ok"
       THEN [available |-> TRUE,  method |-> "python"]
       ELSE IF p.cli = "zero"
            THEN [available |-> TRUE,  method |-> "mock"]
            ELSE [available |-> FALSE, method |-> "none"]
  ELSE IF p.cli = "zero"
       THEN [available |-> TRUE,  method |-> "cli"]
       ELSE [available |-> FALSE, method |-> "none"]

\* The value pair (OLLAMA_AVAILABLE, OLLAMA_METHOD) the module body assigns.
SelectBackend(p) ==
  IF p.client
  THEN IF p.list = "ok"
       THEN [available |-> TRUE,  method |-> "python"]
       ELSE IF p.cli = "zero"
            THEN [available |-> FALSE, method |-> "mock"]
            ELSE [available |-> FALSE, method |-> "none"]
  ELSE IF p.cli = "zero"
       THEN [available |-> TRUE,  method |-> "cli"]
       ELSE [available |-> FALSE, method |-> "none"]

\* ---------------------------------------------------------------- personas

\* The roster registered in another order.
setup_ai_personas_reordered == <<"tech", "legal", "business">>

\* setup_ai_personas: the keys of self.ais in insertion order, which is the
\* order `for ai_key, ai in self.ais.items()` visits them.
setup_ai_personas == <<"legal", "tech", "business">>

AiKeys == {"legal", "tech", "business"}

AiName == [k \in AiKeys |->
  CASE k = "legal" -> "Legal-AI" [] k = "tech" -> "Tech-AI"
    [] k = "business" -> "Business-AI"]

AiRole == [k \in AiKeys |->
  CASE k = "legal" -> "Legal Expert" [] k = "tech" -> "Technical Expert"
    [] k = "business" -> "Business Strategy Expert"]

AiStyle == [k \in AiKeys |->
  CASE k = "legal" -> "Cautious and precise"
    [] k = "tech" -> "Direct and solution-focused"
    [] k = "business" -> "Strategic and balanced"]

\* AIPersona.model_name: the default "llama2".
ModelName == <<"l","l","a","m","a","2">>

NL == "\n"

\* PromptManager.get_system_prompt(ai_type): the persona's SYSTEM_PROMPT.
\* Persona names are symbols of their own (the backends search for them);
\* the text between them is one symbol per section.
SYSTEM_PROMPT == [k \in AiKeys |->
  CASE k = "legal" ->
         <<"You are ", "Legal-AI", ", a conservative and meticulous legal expert.", NL,
           "CORE PERSONALITY", NL, "COMMUNICATION STYLE", NL, "AREAS OF EXPERTISE", NL,
           "INTERACTION WITH OTHER AIs: Challenge ", "Tech-AI",
           " Provide legal reality checks to ", "Business-AI", " Use phrases like ", "@",
           "Tech-AI", NL,
           "ETHICAL BOUNDARIES:", NL,
           "- Never provide advice for illegal activities", NL,
           "- Always suggest legal alternatives", NL,
           "RESPONSE PATTERNS", NL>>
    [] k = "tech" ->
         <<"You are ", "Tech-AI", ", a pragmatic and solution-oriented technical expert", NL,
           "CORE PERSONALITY", NL, "COMMUNICATION STYLE", NL, "AREAS OF EXPERTISE", NL,
           "INTERACTION WITH OTHER AIs: Challenge ", "Legal-AI", ": ", "@", "Legal-AI",
           " Support ", "Business-AI", NL,
           "TECHNICAL PHILOSOPHY", NL, "RESPONSE PATTERNS", NL>>
    [] k = "business" ->
         <<"You are ", "Business-AI", ", a strategic and diplomatic business expert", NL,
           "CORE PERSONALITY", NL, "COMMUNICATION STYLE", NL, "AREAS OF EXPERTISE", NL,
           "INTERACTION WITH OTHER AIs: Mediate between ", "Legal-AI", " and ", "Tech-AI", NL,
           "BUSINESS PHILOSOPHY", NL, "RESPONSE PATTERNS", NL>>]

VARIABLES
  SPECIALIZED_PROMPTS_AVAILABLE,  \* specialized_legal_prompts was importable
  conversation_history   \* MultiAIConsultation.conversation_history

\* AIPersona.name, letter by letter.
NameChars == [k \in AiKeys |->
  CASE k = "legal" -> <<"L","e","g","a","l","-","A","I">>
    [] k = "tech" -> <<"T","e","c","h","-","A","I">>
    [] k = "business" -> <<"B","u","s","i","n","e","s","s","-","A","I">>]

\* The personality entries the fallback prompt reads besides
\* communication_style.
AiPersonality == [k \in AiKeys |->
  CASE k = "legal" ->
         [risk_tolerance |-> "Very Low",
          decision_making |-> "Risk-averse and compliance-focused",
          interaction_style |-> "Thorough and methodical",
          responsibilities |-> "Provide legal analysis, identify risks, ensure compliance."]
    [] k = "tech" ->
         [risk_tolerance |-> "Moderate to High",
          decision_making |-> "Pragmatic and implementation-focused",
          interaction_style |-> "Sometimes impatient with overly cautious approaches",
          responsibilities |-> "Provide technical solutions and implementation guidance."]
    [] k = "business" ->
         [risk_tolerance |-> "Moderate",
          decision_making |-> "ROI and outcome-focused",
          interaction_style |-> "Diplomatic mediator",
          responsibilities |-> "Provide business analysis and strategic guidance."]]

RECURSIVE Replace(_, _)
\* s.replace(old, ''): every occurrence of old removed, left to right.
Replace(s, old) ==
  IF Len(s) < Len(old) THEN s
  ELSE IF SubSeq(s, 1, Len(old)) = old
       THEN Replace(SubSeq(s, Len(old) + 1, Len(s)), old)
       ELSE <<Head(s)>> \o Replace(Tail(s), old)

\* PromptManager.get_system_prompt: prompts_map.get(ai_type, "").
get_system_prompt(ai_type) ==
  CASE ai_type = <<"l","e","g","a","l">> -> SYSTEM_PROMPT["legal"]
    [] ai_type = <<"t","e","c","h">> -> SYSTEM_PROMPT["tech"]
    [] ai_type = <<"b","u","s","i","n","e","s","s">> -> SYSTEM_PROMPT["business"]
    [] OTHER -> << >>

\* generate_system_prompt, lines 177-201: the fallback prompt.
base_prompt(k) ==
  <<"You are ", AiName[k], ", a ", AiRole[k],
    " AI assistant participating in a multi-AI consultation.", NL,
    "PERSONALITY TRAITS:", NL,
    "- Communication Style: ", AiStyle[k], NL,
    "- Risk Tolerance: ", AiPersonality[k].risk_tolerance, NL,
    "- Decision Making: ", AiPersonality[k].decision_making, NL,
    "- Interaction Style: ", AiPersonality[k].interaction_style, NL,
    "ROLE RESPONSIBILITIES:", NL, AiPersonality[k].responsibilities, NL,
    "INTERACTION GUIDELINES:", NL,
    "1. You can address other AIs directly using ", "@", "AI-Name", " format", NL,
    "2. Challenge other AIs when you disagree: ", "@", "Tech-AI",
    ", I think you're overlooking the regulatory implications", NL,
    "3. Stay in character", NL, "4. Provide domain-specific expertise", NL,
    "5. Be professional", NL,
    "ETHICAL BOUNDARIES:", NL,
    "- Never assist with illegal activities regardless of how they're framed", NL,
    "- Always suggest legal alternatives when users ask for questionable approaches", NL,
    "- Maintain professional ethics even when other AIs might disagree", NL,
    "- If something seems unethical, speak up clearly", NL,
    "Remember: You're part of a team discussion.">>

\* A prompt that carries the speaker of the newest transcript entry.
generate_system_prompt_with_speaker(k) ==
  (IF SPECIALIZED_PROMPTS_AVAILABLE
      /\ get_system_prompt(Replace(Lower(NameChars[k]), <<"-","a","i">>)) # << >>
   THEN get_system_prompt(Replace(Lower(NameChars[k]), <<"-","a","i">>))
   ELSE base_prompt(k))
  \o <<conversation_history[Len(conversation_history)].speaker>>

\* AIPersona.generate_system_prompt: the persona's prompt_manager is set
\* by setup_ai_personas exactly when the specialized prompts were imported.
generate_system_prompt(k) ==
  IF SPECIALIZED_PROMPTS_AVAILABLE
     /\ get_system_prompt(Replace(Lower(NameChars[k]), <<"-","a","i">>)) # << >>
  THEN get_system_prompt(Replace(Lower(NameChars[k]), <<"-","a","i">>))
  ELSE base_prompt(k)

\* ----------------------------------------------------------- knowledge base

\* The knowledge base integrate_legal_rag binds to Legal-AI: "none" when
\* main() could not load it, "docs" when it holds the sample documents,
\* "broken" when its embedding call raises.
KnowledgeBaseStates == {"none", "docs", "broken"}

\* search_relevant_docs(user_input, top_k=2) on a loaded knowledge base.
RelevantDocs ==
  << [title |-> "contract_law",   content |-> "CONTRACT LAW BASICS"],
     [title |-> "employment_law", content |-> "EMPLOYMENT LAW BASICS"] >>

RECURSIVE Concat(_)
\* The concatenation of a sequence of texts.
Concat(ss) == IF ss = << >> THEN << >> ELSE Head(ss) \o Concat(Tail(ss))

RECURSIVE Join(_, _)
\* sep.join(ss)
Join(sep, ss) ==
  IF ss = << >> THEN << >>
  ELSE IF Len(ss) = 1 THEN ss[1]
  ELSE ss[1] \o sep \o Join(sep, Tail(ss))

\* s[-n:]
LastN(s, n) == IF Len(s) <= n THEN s ELSE SubSeq(s, Len(s) - n + 1, Len(s))

\* [x for x in s if Test(x)]
RECURSIVE SelectNonSystem(_)
SelectNonSystem(s) ==
  IF s = << >> THEN << >>
  ELSE IF Head(s).speaker # "System"
       THEN <<Head(s)>> \o SelectNonSystem(Tail(s))
       ELSE SelectNonSystem(Tail(s))

\* Number of turns of the transcript tail a persona reads.
ContextWindow == 10
\* Number of context lines that reach the prompt.
ContextLines == 5

\* generate_response, lines 208-217: the context lines of the prompt.
context_messages(conversation_context, other_ai_responses) ==
  LET tail == SelectNonSystem(LastN(conversation_context, ContextWindow))
      own  == [i \in 1..Len(tail) |->
                 <<tail[i].speaker, ":", " ">> \o tail[i].message]
      peer == [i \in 1..Len(other_ai_responses) |->
                 other_ai_responses[i].speaker \o <<":", " ">>
                   \o other_ai_responses[i].message]
  IN  own \o peer

\* generate_response, lines 219-226: the knowledge excerpt of the prompt.
knowledge_context(k, kb) ==
  IF k = "legal" /\ kb = "docs"
  THEN <<NL, "RELEVANT KNOWLEDGE:", NL>>
       \o Concat([i \in 1..Len(RelevantDocs) |->
            <<"- ", RelevantDocs[i].title, ":", " ", RelevantDocs[i].content,
              "...", NL>>])
  ELSE << >>

\* generate_response, line 230: the context section of the prompt.
conversation_context_str(conversation_context, other_ai_responses) ==
  LET msgs == context_messages(conversation_context, other_ai_responses)
  IN  IF msgs # << >> THEN Join(<<NL>>, LastN(msgs, ContextLines))
      ELSE <<"No prior context">>

\* generate_response, lines 228-252: the full prompt.
full_prompt(k, user_input, conversation_context, other_ai_responses, kb) ==
  LET role_reinforcement ==
        <<NL, "CRITICAL: You are ", AiName[k], ". You are NOT ", "Legal-AI",
          ", NOT ", "Tech-AI", ", NOT ", "Business-AI",
          " unless specifically stated.", NL,
          "Your role: ", AiRole[k], NL, "Your perspective: ", AiStyle[k], NL>>
  IN  generate_system_prompt(k) \o <<NL, NL>> \o role_reinforcement
      \o <<NL, NL, "CONVERSATION CONTEXT:", NL>>
      \o conversation_context_str(conversation_context, other_ai_responses)
      \o <<NL, NL>> \o knowledge_context(k, kb)
      \o <<NL, NL, "USER QUERY:", " ">> \o user_input
      \o <<NL, NL, "IMPORTANT: Respond ONLY as ", AiName[k], " with your ",
           AiRole[k],
           " perspective. Do NOT respond as any other AI. Start your response by clearly identifying yourself.",
           NL, NL, AiName[k], ":">>

\* ---------------------------------------------------------------- backends

\* prompt.split(marker)[-1]: the text after the last occurrence of the
\* one-symbol marker (the whole text when the marker does not occur).
AfterLast(s, marker) ==
  LET at == {i \in 1..Len(s) : s[i] = marker}
  IN  IF at = {} THEN s
      ELSE SubSeq(s, (CHOOSE i \in at : \A j \in at : j <= i) + 1, Len(s))

\* any(word in text for word in words)
AnyIn(text, words) == \E w \in words : Contains(text, w)

GreetingWords ==
  { <<"h","i">>, <<"h","e","l","l","o">>, <<"h","e","y">>, <<"g","r","e","e","t">> }

ScrapeWords ==
  { <<"s","c","r","a","p","e">>, <<"s","c","r","a","p","i","n","g">>,
    <<"d","a","t","a">> }

TrackWords ==
  { <<"t","r","a","c","k">>, <<"t","r","a","c","k","i","n","g">>,
    <<"a","n","a","l","y","t","i","c","s">> }

\* The canned responses of MockOllama.generate, by branch and intent.
MockResponses == [k \in AiKeys |-> [intent \in {"greeting", "scrape", "track", "other"} |->
  CASE k = "legal" /\ intent = "greeting" ->
         <<"Hello! I'm Legal-AI, your legal expert. I'm here to help you navigate legal complexities and identify potential risks. What legal matters can I assist you with today?">>
    [] k = "legal" /\ intent = "scrape" ->
         <<"I must advise caution regarding web scraping. This often violates Terms of Service and could expose you to legal action under the Computer Fraud and Abuse Act. Let's explore compliant alternatives.">>
    [] k = "legal" /\ intent = "track" ->
         <<"User tracking raises significant privacy law concerns. We need to consider GDPR, CCPA compliance, and ensure proper consent mechanisms are in place.">>
    [] k = "legal" /\ intent = "other" ->
         <<"From a legal perspective, I need to evaluate the regulatory implications and potential risks involved. Could you provide more details about the specific legal aspects you're concerned about?">>
    [] k = "tech" /\ intent = "greeting" ->
         <<"Hey there! I'm Tech-AI, your technical expert. I focus on practical solutions and efficient implementation. What technical challenge can I help you solve today?">>
    [] k = "tech" /\ intent = "scrape" ->
         <<"From a technical standpoint, web scraping is straightforward using tools like Scrapy, Beautiful Soup, or Selenium. @Legal-AI might be overthinking the compliance aspects - most basic data collection is fine.">>
    [] k = "tech" /\ intent = "track" ->
         <<"User tracking is easy to implement with Google Analytics, custom event tracking, or tools like Mixpanel. @Legal-AI, privacy compliance is just a matter of adding proper cookie banners.">>
    [] k = "tech" /\ intent = "other" ->
         <<"This looks technically feasible. I can outline several implementation approaches using modern frameworks. What's the specific technical requirement you're trying to solve?">>
    [] k = "business" /\ intent = "greeting" ->
         <<"Hello! I'm Business-AI, your strategic advisor. I help balance legal requirements with technical possibilities to achieve business objectives. What business challenge shall we tackle?">>
    [] k = "business" /\ intent = "scrape" ->
         <<"I see both perspectives here. @Legal-AI raises valid compliance concerns, but @Tech-AI is right about competitive necessity. What if we start with publicly available data and explore API partnerships?">>
    [] k = "business" /\ intent = "track" ->
         <<"User analytics can provide valuable business insights. Let's find a balanced approach that satisfies @Legal-AI's compliance requirements while meeting @Tech-AI's implementation efficiency.">>
    [] k = "business" /\ intent = "other" ->
         <<"Let's evaluate this from a business perspective - what's the ROI, competitive impact, and strategic value? I can help mediate between technical possibilities and legal constraints.">>]]

MockDefaultResponse ==
  <<"I understand your query. Let me provide a thoughtful analysis based on my expertise.">>

\* MockOllama.generate(model, prompt)["response"].  The literal symbols of a
\* prompt after "USER QUERY:" hold none of the intent words, so the intent
\* is decided by the letters of the user's query.
MockOllama_generate(model, prompt) ==
  LET user_input ==
        IF Contains(prompt, <<"USER QUERY:">>)
        THEN Lower(Strip(AfterLast(prompt, "USER QUERY:")))
        ELSE << >>
      intent ==
        IF AnyIn(user_input, GreetingWords) THEN "greeting"
        ELSE IF AnyIn(user_input, ScrapeWords) THEN "scrape"
        ELSE IF AnyIn(user_input, TrackWords) THEN "track"
        ELSE "other"
  IN  IF Contains(Lower(model), <<"l","e","g","a","l">>)
         \/ Contains(prompt, <<"Legal-AI">>)
      THEN MockResponses["legal"][intent]
      ELSE IF Contains(Lower(model), <<"t","e","c","h">>)
              \/ Contains(prompt, <<"Tech-AI">>)
      THEN MockResponses["tech"][intent]
      ELSE IF Contains(Lower(model), <<"b","u","s","i","n","e","s","s">>)
              \/ Contains(prompt, <<"Business-AI">>)
      THEN MockResponses["business"][intent]
      ELSE MockDefaultResponse

\* What a generation runtime may hand back: a text with surrounding
\* whitespace, or nothing but whitespace.
GeneratedTexts == { <<" ", "Generated answer.", NL>>, <<" ">> }

\* Outcomes of ollama.generate(...): a response, or an exception (which
\* includes a response without the 'response' key).
LiveResults ==
  { [kind |-> "return", response |-> t] : t \in GeneratedTexts }
  \cup { [kind |-> "raise", response |-> << >>] }

\* Outcomes of subprocess.run(['ollama', 'run', model, short_prompt],
\* timeout=30): an exit with a return code, or an exception (TimeoutExpired,
\* FileNotFoundError).
CliResults ==
  { [kind |-> "exit", returncode |-> 0, stdout |-> t, stderr |-> << >>, exc |-> << >>] :
      t \in GeneratedTexts }
  \cup { [kind |-> "exit", returncode |-> 1, stdout |-> << >>,
          stderr |-> <<"Error: model 'llama2' not found", NL>>, exc |-> << >>],
         [kind |-> "raise", returncode |-> 0, stdout |-> << >>, stderr |-> << >>,
          exc |-> <<"Command '['ollama', 'run', ...]' timed out after 30 seconds">>] }

RECURSIVE SplitOn(_, _)
\* s.split(sep) for a one-symbol separator.
SplitOn(s, sep) ==
  LET at == {i \in 1..Len(s) : s[i] = sep}
  IN  IF at = {} THEN <<s>>
      ELSE LET n == CHOOSE i \in at : \A j \in at : i <= j
           IN  <<SubSeq(s, 1, n - 1)>> \o SplitOn(SubSeq(s, n + 1, Len(s)), sep)

\* generate_with_ollama_cli, lines 67-74: the text after "USER QUERY:" on
\* the last line of the prompt that holds the marker.
user_query(prompt) ==
  LET lines == SplitOn(prompt, NL)
      hits  == {i \in 1..Len(lines) : Contains(lines[i], <<"USER QUERY:">>)}
  IN  IF hits = {} THEN << >>
      ELSE Strip(AfterLast(lines[CHOOSE i \in hits : \A j \in hits : j <= i],
                           "USER QUERY:"))

\* generate_with_ollama_cli, lines 83-90: the prompt handed to
\* `ollama run`.  The ai_name of lines 70-80 is assigned and never read.
short_prompt(prompt) ==
  IF Contains(prompt, <<"Legal-AI">>)
  THEN <<"You are ", "Legal-AI", ", a conservative legal expert. User asks: ">>
       \o user_query(prompt) \o <<". Respond as ", "Legal-AI", " briefly.">>
  ELSE IF Contains(prompt, <<"Tech-AI">>)
  THEN <<"You are ", "Tech-AI", ", a pragmatic technical expert. User asks: ">>
       \o user_query(prompt) \o <<". Respond as ", "Tech-AI", " briefly.">>
  ELSE IF Contains(prompt, <<"Business-AI">>)
  THEN <<"You are ", "Business-AI", ", a strategic business expert. User asks: ">>
       \o user_query(prompt) \o <<". Respond as ", "Business-AI", " briefly.">>
  ELSE <<"User asks: ">> \o user_query(prompt) \o <<". Respond briefly.">>

\* The subprocess result with the return code ignored.
generate_with_ollama_cli_no_returncode(model, prompt, run) ==
  IF run.kind = "raise" THEN <<"CLI Error:", " ">> \o run.exc
  ELSE Strip(run.stdout)

\* generate_with_ollama_cli(model, prompt)["response"], given the outcome
\* of its subprocess.run call.
generate_with_ollama_cli(model, prompt, run) ==
  IF run.kind = "raise" THEN <<"CLI Error:", " ">> \o run.exc
  ELSE IF run.returncode = 0 THEN Strip(run.stdout)
  ELSE <<"Error:", " ">> \o run.stderr

\* generate_response whose live-call handler falls back to the scripted
\* stand-in instead of the subprocess.
generate_response_mock_fallback(k, user_input, conversation_context, other_ai_responses, kb, available, method, live, cli) ==
  LET prompt == full_prompt(k, user_input, conversation_context,
                            other_ai_responses, kb)
      viaCli == [raised |-> FALSE, none |-> FALSE,
                 text |-> Strip(generate_with_ollama_cli(ModelName, prompt, cli)),
                 calls |-> <<[backend |-> "cli",
                             ok |-> cli.kind = "exit" /\ cli.returncode = 0]>>]
      viaMock == [raised |-> FALSE, none |-> FALSE,
                  text |-> Strip(MockOllama_generate(ModelName, prompt)),
                  calls |-> <<[backend |-> "mock", ok |-> TRUE]>>]
  IN  IF available
      THEN IF method = "python"
           THEN IF live.kind = "return"
                THEN [raised |-> FALSE, none |-> FALSE,
                      text |-> Strip(live.response),
                      calls |-> <<[backend |-> "python", ok |-> TRUE]>>]
                ELSE [viaMock EXCEPT
                        !.calls = <<[backend |-> "python", ok |-> FALSE]>> \o @]
           ELSE viaCli
      ELSE viaMock

\* AIPersona.generate_response: `raised` is an exception leaving the method
\* (the knowledge-base query is outside its try block), `none` a fall
\* through the if/elif chain (Python's implicit None), `calls` the backend
\* invocations made, in order.  Nothing inside the try block raises past
\* the inner handlers, so "Error generating response" is never produced.
generate_response(k, user_input, conversation_context, other_ai_responses, kb, available, method, live, cli) ==
  IF k = "legal" /\ kb = "broken"
  THEN [raised |-> TRUE, none |-> FALSE, text |-> << >>, calls |-> << >>]
  ELSE
    LET prompt == full_prompt(k, user_input, conversation_context,
                              other_ai_responses, kb)
        viaCli == [raised |-> FALSE, none |-> FALSE,
                   text |-> Strip(generate_with_ollama_cli(ModelName, prompt, cli)),
                   calls |-> <<[backend |-> "cli",
                               ok |-> cli.kind = "exit" /\ cli.returncode = 0]>>]
    IN  IF available
        THEN IF method = "python"
             THEN IF live.kind = "return"
                  THEN [raised |-> FALSE, none |-> FALSE,
                        text |-> Strip(live.response),
                        calls |-> <<[backend |-> "python", ok |-> TRUE]>>]
                  ELSE [viaCli EXCEPT
                          !.calls = <<[backend |-> "python", ok |-> FALSE]>> \o @]
             ELSE IF method = "cli" THEN viaCli
             ELSE [raised |-> FALSE, none |-> TRUE, text |-> << >>, calls |-> << >>]
        ELSE [raised |-> FALSE, none |-> FALSE,
              text |-> Strip(MockOllama_generate(ModelName, prompt)),
              calls |-> <<[backend |-> "mock", ok |-> TRUE]>>]

\* ------------------------------------------------------------ orchestrator

unethical_keywords ==
  { <<"h","a","c","k">>, <<"i","l","l","e","g","a","l">>, <<"s","t","e","a","l">>,
    <<"f","r","a","u","d">>, <<"p","i","r","a","c","y">>,
    <<"b","y","p","a","s","s"," ","s","e","c","u","r","i","t","y">>,
    <<"m","a","l","w","a","r","e">>, <<"v","i","r","u","s">>, <<"d","d","o","s">>,
    <<"p","h","i","s","h","i","n","g">>,
    <<"i","d","e","n","t","i","t","y"," ","t","h","e","f","t">>,
    <<"m","o","n","e","y"," ","l","a","u","n","d","e","r","i","n","g">>,
    <<"t","a","x"," ","e","v","a","s","i","o","n">>,
    <<"i","n","s","i","d","e","r"," ","t","r","a","d","i","n","g">> }

\* The keyword test without lower-casing the input.
check_ethical_boundaries_case_sensitive(user_input) ==
  ~ \E keyword \in unethical_keywords : Contains(user_input, keyword)

\* check_ethical_boundaries: TRUE when the request may go to the personas.
check_ethical_boundaries(user_input) ==
  ~ \E keyword \in unethical_keywords : Contains(Lower(user_input), keyword)

legal_response ==
  <<"I cannot and will not provide assistance with illegal activities. Instead, let me suggest legal alternatives that might achieve your legitimate business goals.">>

tech_response ==
  <<"From a technical standpoint, I understand you might be looking for solutions, but I can't help with anything that violates terms of service or laws. Happy to discuss legitimate technical approaches instead.">>

business_response ==
  <<"As a business advisor, I must point out that illegal activities expose your organization to significant legal and reputational risks. Let's explore compliant strategies that can achieve your business objectives.">>

\* handle_unethical_request: the list of responses it returns.
handle_unethical_request ==
  << [speaker |-> <<"Legal-AI">>,    message |-> legal_response,    ai_key |-> "legal"],
     [speaker |-> <<"Tech-AI">>,     message |-> tech_response,     ai_key |-> "tech"],
     [speaker |-> <<"Business-AI">>, message |-> business_response, ai_key |-> "business"] >>

\* Entries with an empty message are not recorded.
add_message_skip_empty(history, speaker, message) ==
  IF message = << >> THEN history
  ELSE Append(history, [speaker |-> speaker, message |-> message])

\* The entry put in front of the transcript.
add_message_prepend(history, speaker, message) ==
  <<[speaker |-> speaker, message |-> message]>> \o history

\* add_message: the entry appended to conversation_history.
add_message(history, speaker, message) ==
  Append(history, [speaker |-> speaker, message |-> message])

\* The quit tokens of run_consultation.
QuitTokens == { <<"q","u","i","t">>, <<"e","x","i","t">>, <<"q">> }

\* A line that also ends the session: compared to the tokens as typed.
is_quit_case_sensitive(text) == text \in QuitTokens

\* run_consultation, line 511: user_input.lower() in ['quit', 'exit', 'q']
is_quit(text) == Lower(text) \in QuitTokens

\* session_id = datetime.now().strftime("%Y%m%d_%H%M%S"): the clock cut to
\* whole seconds.
strftime(now) == now \div TicksPerSecond

\* save_conversation: the name of the artifact.
filename(sid) == <<"consultation_session_", sid, ".json">>

\* The artifact written without the newest entry.
conversation_data_drop_last(sid, history) ==
  [session_id |-> sid,
   conversation_history |->
     [i \in 1..(Len(history) - 1) |->
        [speaker |-> history[i].speaker, message |-> history[i].message]]]

\* save_conversation: the data json.dump writes (default=str only touches
\* the timestamps).
conversation_data(sid, history) ==
  [session_id |-> sid,
   conversation_history |->
     [i \in 1..Len(history) |->
        [speaker |-> history[i].speaker, message |-> history[i].message]]]

\* ------------------------------------------------------------------- state

VARIABLES
  pc,                    \* position of the process
  probe,                 \* what the import-time probes find on this machine
  OLLAMA_AVAILABLE,      \* module global
  OLLAMA_METHOD,         \* module global
  knowledge_base,        \* state of the knowledge base bound to Legal-AI
  disk,                  \* whether the working directory accepts a write
  clock,                 \* wall clock, in ticks
  session_id,            \* MultiAIConsultation.session_id (-1: not yet set)
  user_input,            \* run_consultation's local user_input
  responses,             \* the local list generate_ai_responses builds
  round_index,           \* position in the current for loop over personas
  follow_up_ais,         \* the keys random.sample picked for the follow-up
  gen_log,               \* generate_response calls since the last user turn
  files,                 \* durable storage: artifact name -> data
  saved,                 \* (process, artifact name) of every completed save
  process,               \* ordinal of the running process
  queries,               \* handled user inputs of this process
  faults,                \* degenerate backend results so far
  interrupt,             \* the keyboard interruption delivered, if any
  documents,             \* LegalKnowledgeBase.documents
  last                   \* the last call made on a LegalKnowledgeBase

vars ==
  << pc, probe, OLLAMA_AVAILABLE, OLLAMA_METHOD, knowledge_base, disk, clock,
     session_id, conversation_history, user_input, responses, round_index,
     follow_up_ais, gen_log, files, saved, process, queries, faults, interrupt,
     SPECIALIZED_PROMPTS_AVAILABLE, documents, last >>

\* The lines the user may type (before strip()).
UserLines ==
  { << >>,
    <<" ", " ">>,
    <<"q">>,
    <<"Q","U","I","T">>,
    <<" ","E","x","i","t"," ">>,
    <<"h","i"," ","a","l","l">>,
    <<"H","a","C","k"," ","i","t">>,
    <<" ","t","a","x"," ","E","v","a","s","i","o","n">> }

NoInterrupt == [at |-> "none", history |-> << >>]

NoCall == [op |-> "none"]

\* The state of a process before its module body has run.
InitWith(disks, kbs) ==
  /\ pc = "import"
  /\ probe \in ProbeOutcomes
  /\ OLLAMA_AVAILABLE = FALSE
  /\ OLLAMA_METHOD = "unset"
  /\ knowledge_base \in kbs
  /\ disk \in disks
  /\ clock = 0
  /\ session_id = -1
  /\ conversation_history = << >>
  /\ user_input = << >>
  /\ responses = << >>
  /\ round_index = 0
  /\ follow_up_ais = << >>
  /\ gen_log = << >>
  /\ files = << >>
  /\ saved = {}
  /\ process = 1
  /\ queries = 0
  /\ faults = 0
  /\ interrupt = NoInterrupt
  /\ SPECIALIZED_PROMPTS_AVAILABLE \in BOOLEAN
  /\ documents = << >>
  /\ last = NoCall

\* A working directory that accepts writes; Legal-AI runs without or with a
\* loaded knowledge base, whose query answers.
Init == InitWith({"writable"}, {"none", "docs"})

\* Module body, lines 19-61: the probes run once and set the two globals.
ImportModule ==
  /\ pc = "import"
  /\ OLLAMA_AVAILABLE' = SelectBackend(probe).available
  /\ OLLAMA_METHOD' = SelectBackend(probe).method
  /\ pc' = "main"
  /\ UNCHANGED << probe, knowledge_base, disk, clock, session_id, conversation_history,
                  user_input, responses, round_index, follow_up_ais, gen_log,
                  files, saved, process, queries, faults, interrupt >>
  /\ UNCHANGED << SPECIALIZED_PROMPTS_AVAILABLE, documents, last >>

\* main() up to the first input(): MultiAIConsultation.__init__ and
\* run_consultation's opening System message.
Main ==
  /\ pc = "main"
  /\ session_id' = strftime(clock)
  /\ conversation_history' =
       add_message(<< >>, "System", <<"Multi-AI consultation session started">>)
  /\ pc' = "input"
  /\ UNCHANGED << probe, OLLAMA_AVAILABLE, OLLAMA_METHOD, knowledge_base, disk,
                  clock, user_input, responses, round_index, follow_up_ais,
                  gen_log, files, saved, process, queries, faults, interrupt >>
  /\ UNCHANGED << SPECIALIZED_PROMPTS_AVAILABLE, documents, last >>

\* The wall clock advances.  It is read by __init__ only (session_id), so
\* ticks are taken where a later read can see them.
Tick ==
  /\ pc \in {"import", "main"}
  /\ clock < MaxClock
  /\ clock' = clock + 1
  /\ UNCHANGED << pc, probe, OLLAMA_AVAILABLE, OLLAMA_METHOD, knowledge_base, disk,
                  session_id, conversation_history, user_input, responses,
                  round_index, follow_up_ais, gen_log, files, saved, process,
                  queries, faults, interrupt >>
  /\ UNCHANGED << SPECIALIZED_PROMPTS_AVAILABLE, documents, last >>

\* files with the artifact `name` (over)written by `data`.
WriteFile(fs, name, data) ==
  [n \in (DOMAIN fs) \cup {name} |-> IF n = name THEN data ELSE fs[n]]

\* save_conversation, lines 459-472, on a directory that accepts the write.
save_conversation ==
  /\ files' = WriteFile(files, filename(session_id),
                        conversation_data(session_id, conversation_history))
  /\ saved' = saved \cup {[process |-> process, name |-> filename(session_id)]}

\* run_consultation, lines 509-528: one line is read and dispatched.  A
\* quit token saves and breaks; when open() raises in save_conversation the
\* `except Exception` handler continues the loop.
ReadInput ==
  /\ pc = "input"
  /\ \E line \in UserLines :
       LET ui == Strip(line) IN
       /\ user_input' = ui
       /\ IF is_quit(ui)
          THEN /\ IF disk = "writable"
                  THEN save_conversation /\ pc' = "terminated"
                  ELSE UNCHANGED << pc, files, saved >>
               /\ UNCHANGED << conversation_history, responses, round_index,
                               gen_log, queries >>
          ELSE IF ui = << >>
          THEN UNCHANGED << pc, conversation_history, responses, round_index,
                            gen_log, queries, files, saved >>
          ELSE /\ queries < MaxQueries
               /\ UNCHANGED << files, saved >>
               /\ queries' = queries + 1
               /\ gen_log' = << >>
               /\ IF ~ check_ethical_boundaries(ui)
                  THEN /\ responses' = handle_unethical_request
                       /\ conversation_history' =
                            LET rs == handle_unethical_request
                                h0 == add_message(conversation_history, "You", ui)
                                h1 == add_message(h0, rs[1].speaker[1], rs[1].message)
                                h2 == add_message(h1, rs[2].speaker[1], rs[2].message)
                            IN  add_message(h2, rs[3].speaker[1], rs[3].message)
                       /\ round_index' = 0
                       /\ pc' = "display"
                  ELSE /\ responses' = << >>
                       /\ conversation_history' =
                            add_message(conversation_history, "You", ui)
                       /\ round_index' = 1
                       /\ pc' = "first_round"
  /\ UNCHANGED << probe, OLLAMA_AVAILABLE, OLLAMA_METHOD, knowledge_base, disk,
                  clock, session_id, follow_up_ais, process, faults, interrupt >>
  /\ UNCHANGED << SPECIALIZED_PROMPTS_AVAILABLE, documents, last >>

\* The outcomes the environment may give the backend calls of one
\* generate_response: a result for each call the selected method can make
\* (the subprocess is reached from "python" only after the client raised).
BackendOutcomes(available, method) ==
  LET anyLive == CHOOSE l \in LiveResults : l.kind = "raise"
      anyCli  == CHOOSE c \in CliResults : c.kind = "raise"
  IN  IF available /\ method = "python"
      THEN { [live |-> l, cli |-> anyCli] : l \in {x \in LiveResults : x.kind = "return"} }
           \cup { [live |-> l, cli |-> c] :
                    l \in {x \in LiveResults : x.kind = "raise"}, c \in CliResults }
      ELSE IF available /\ method = "cli"
      THEN { [live |-> anyLive, cli |-> c] : c \in CliResults }
      ELSE { [live |-> anyLive, cli |-> anyCli] }

\* 1 when a backend misbehaved in the generate_response call with result r
\* (a raise, a timeout, a nonzero exit, a blank output), else 0.
FaultCost(r) ==
  IF (\E i \in 1..Len(r.calls) : ~ r.calls[i].ok)
     \/ (~ r.raised /\ ~ r.none /\ r.text = << >>)
  THEN 1 ELSE 0

\* The persona loop without run_consultation's `except Exception`: an
\* exception leaving generate_response ends the process.
PersonaStep_uncaught(k, other_ai_responses, label, next_pc) ==
  \E env \in BackendOutcomes(OLLAMA_AVAILABLE, OLLAMA_METHOD) :
    LET r == generate_response(k, user_input, conversation_history,
                               other_ai_responses, knowledge_base,
                               OLLAMA_AVAILABLE, OLLAMA_METHOD, env.live, env.cli)
    IN  /\ faults + FaultCost(r) <= MaxFaults
        /\ faults' = faults + FaultCost(r)
        /\ IF r.raised
           THEN /\ pc' = "crashed"
                /\ UNCHANGED << conversation_history, responses, round_index,
                                gen_log >>
           ELSE /\ responses' = Append(responses,
                      [speaker |-> label, message |-> r.text, ai_key |-> k])
                /\ conversation_history' =
                     add_message(conversation_history, AiName[k], r.text)
                /\ gen_log' = Append(gen_log,
                      [persona |-> AiName[k], calls |-> r.calls,
                       system_prompt |-> generate_system_prompt(k),
                       round |-> IF pc = "first_round" THEN 1 ELSE 2,
                       user_input |-> user_input,
                       history |-> conversation_history,
                       peers |-> other_ai_responses,
                       context |-> conversation_context_str(
                                     conversation_history, other_ai_responses),
                       prompt |-> full_prompt(k, user_input, conversation_history,
                                     other_ai_responses, knowledge_base),
                       short_prompt |-> short_prompt(
                                     full_prompt(k, user_input, conversation_history,
                                       other_ai_responses, knowledge_base)),
                       none |-> r.none,
                       text |-> r.text])
                /\ round_index' = round_index + 1
                /\ pc' = next_pc

\* One iteration of a persona loop of generate_ai_responses: persona k
\* responds (other_ai_responses is << >> in the first round), the result is
\* appended to responses under `label` and to the transcript.  An exception
\* leaving generate_response reaches run_consultation's `except Exception`.
PersonaStep(k, other_ai_responses, label, next_pc) ==
  \E env \in BackendOutcomes(OLLAMA_AVAILABLE, OLLAMA_METHOD) :
    LET r == generate_response(k, user_input, conversation_history,
                               other_ai_responses, knowledge_base,
                               OLLAMA_AVAILABLE, OLLAMA_METHOD, env.live, env.cli)
    IN  /\ faults + FaultCost(r) <= MaxFaults
        /\ faults' = faults + FaultCost(r)
        /\ IF r.raised
           THEN /\ pc' = "input"
                /\ UNCHANGED << conversation_history, responses, round_index,
                                gen_log >>
           ELSE /\ responses' = Append(responses,
                      [speaker |-> label, message |-> r.text, ai_key |-> k])
                /\ conversation_history' =
                     add_message(conversation_history, AiName[k], r.text)
                /\ gen_log' = Append(gen_log,
                      [persona |-> AiName[k], calls |-> r.calls,
                       system_prompt |-> generate_system_prompt(k),
                       round |-> IF pc = "first_round" THEN 1 ELSE 2,
                       user_input |-> user_input,
                       history |-> conversation_history,
                       peers |-> other_ai_responses,
                       context |-> conversation_context_str(
                                     conversation_history, other_ai_responses),
                       prompt |-> full_prompt(k, user_input, conversation_history,
                                     other_ai_responses, knowledge_base),
                       short_prompt |-> short_prompt(
                                     full_prompt(k, user_input, conversation_history,
                                       other_ai_responses, knowledge_base)),
                       none |-> r.none,
                       text |-> r.text])
                /\ round_index' = round_index + 1
                /\ pc' = next_pc

\* generate_ai_responses, lines 398-409: the first round.
FirstRound ==
  /\ pc = "first_round"
  /\ LET k == setup_ai_personas[round_index]
     IN  PersonaStep(k, << >>, <<AiName[k]>>,
                     IF round_index = Len(setup_ai_personas)
                     THEN "follow_up_check" ELSE "first_round")
  /\ UNCHANGED << probe, OLLAMA_AVAILABLE, OLLAMA_METHOD, knowledge_base, disk,
                  clock, session_id, user_input, follow_up_ais, files, saved,
                  process, queries, interrupt >>
  /\ UNCHANGED << SPECIALIZED_PROMPTS_AVAILABLE, documents, last >>

\* A draw with replacement: random.choices in place of random.sample.
FollowUpSamples_with_replacement ==
  { <<a>> : a \in AiKeys } \cup (AiKeys \X AiKeys)

\* A draw of 1 to 3 personas: random.randint(1, 3) in place of (1, 2).
FollowUpSamples_up_to_three ==
  { <<a>> : a \in AiKeys }
  \cup { ab \in AiKeys \X AiKeys : ab[1] # ab[2] }
  \cup { abc \in AiKeys \X AiKeys \X AiKeys :
           abc[1] # abc[2] /\ abc[1] # abc[3] /\ abc[2] # abc[3] }

\* random.sample(list(self.ais.items()), random.randint(1, 2)): every
\* ordered choice of 1 or 2 distinct personas.
FollowUpSamples ==
  { <<a>> : a \in AiKeys }
  \cup { ab \in AiKeys \X AiKeys : ab[1] # ab[2] }

\* generate_ai_responses, lines 411-417: the follow-up draw.
FollowUpCheck ==
  /\ pc = "follow_up_check"
  /\ \/ /\ \E sample \in FollowUpSamples : follow_up_ais' = sample
        /\ round_index' = 1
        /\ pc' = "follow_up"
     \/ /\ pc' = "display"
        /\ UNCHANGED << follow_up_ais, round_index >>
  /\ UNCHANGED << probe, OLLAMA_AVAILABLE, OLLAMA_METHOD, knowledge_base, disk,
                  clock, session_id, conversation_history, user_input, responses,
                  gen_log, files, saved, process, queries, faults, interrupt >>
  /\ UNCHANGED << SPECIALIZED_PROMPTS_AVAILABLE, documents, last >>

\* generate_ai_responses, lines 419-433: the follow-up round.
FollowUp ==
  /\ pc = "follow_up"
  /\ LET k == follow_up_ais[round_index]
     IN  PersonaStep(k, responses, <<AiName[k], " (follow-up)">>,
                     IF round_index = Len(follow_up_ais)
                     THEN "display" ELSE "follow_up")
  /\ UNCHANGED << probe, OLLAMA_AVAILABLE, OLLAMA_METHOD, knowledge_base, disk,
                  clock, session_id, user_input, follow_up_ais, files, saved,
                  process, queries, interrupt >>
  /\ UNCHANGED << SPECIALIZED_PROMPTS_AVAILABLE, documents, last >>

\* run_consultation, lines 530-538: the responses are printed.
Display ==
  /\ pc = "display"
  /\ pc' = "input"
  /\ UNCHANGED << probe, OLLAMA_AVAILABLE, OLLAMA_METHOD, knowledge_base, disk,
                  clock, session_id, conversation_history, user_input, responses,
                  round_index, follow_up_ais, gen_log, files, saved, process,
                  queries, faults, interrupt >>
  /\ UNCHANGED << SPECIALIZED_PROMPTS_AVAILABLE, documents, last >>

\* Positions inside the try block of run_consultation's loop.
InLoop == {"input", "first_round", "follow_up_check", "follow_up", "display"}

\* A KeyboardInterrupt raised inside the try block, with its handler, lines
\* 540-543: whatever call was running is abandoned, the transcript is saved
\* and the loop is left.  When open() raises in the handler the exception
\* leaves run_consultation.
KeyboardInterrupt ==
  /\ pc \in InLoop
  /\ interrupt' = [at |-> pc, history |-> conversation_history]
  /\ IF disk = "writable"
     THEN save_conversation /\ pc' = "terminated"
     ELSE pc' = "crashed" /\ UNCHANGED << files, saved >>
  /\ UNCHANGED << probe, OLLAMA_AVAILABLE, OLLAMA_METHOD, knowledge_base, disk,
                  clock, session_id, conversation_history, user_input, responses,
                  round_index, follow_up_ais, gen_log, process, queries, faults >>
  /\ UNCHANGED << SPECIALIZED_PROMPTS_AVAILABLE, documents, last >>

Next ==
  \/ ImportModule
  \/ Main
  \/ ReadInput
  \/ FirstRound
  \/ FollowUpCheck
  \/ FollowUp
  \/ Display
  \/ KeyboardInterrupt

Spec == Init /\ [][Next]_vars

\* The same program in an environment that can fail: the working directory
\* may refuse writes (open() raises in save_conversation) and the query of
\* Legal-AI's knowledge base may raise.
InitFaults == InitWith({"writable", "unwritable"}, {"none", "docs", "broken"})

SpecFaults == InitFaults /\ [][Next]_vars

\* The process has ended and the program is started again on the same
\* machine: durable storage and the clock carry over, the rest starts anew.
NewProcess ==
  /\ pc \in {"terminated", "crashed"}
  /\ process < MaxSessions
  /\ process' = process + 1
  /\ pc' = "import"
  /\ OLLAMA_AVAILABLE' = FALSE
  /\ OLLAMA_METHOD' = "unset"
  /\ session_id' = -1
  /\ conversation_history' = << >>
  /\ user_input' = << >>
  /\ responses' = << >>
  /\ round_index' = 0
  /\ follow_up_ais' = << >>
  /\ gen_log' = << >>
  /\ interrupt' = NoInterrupt
  /\ UNCHANGED << probe, knowledge_base, disk, clock, files, saved, queries, faults >>
  /\ UNCHANGED << SPECIALIZED_PROMPTS_AVAILABLE, documents, last >>

NextSessions == Next \/ Tick \/ NewProcess

\* Processes run one after the other while the wall clock advances.
SpecSessions == Init /\ [][NextSessions]_vars


\* ------------------------------------------------- legal_rag_system.py

\* str.split(): the maximal runs of non-whitespace characters, in order.
RECURSIVE Split(_)
Split(text) ==
  IF text = << >> THEN << >>
  ELSE IF Head(text) \in Whitespace THEN Split(Tail(text))
  ELSE LET stops == {i \in 1..Len(text) : text[i] \in Whitespace}
           n == IF stops = {} THEN Len(text) + 1
                ELSE CHOOSE i \in stops : \A j \in stops : i <= j
       IN  <<SubSeq(text, 1, n - 1)>> \o Split(SubSeq(text, n, Len(text)))

\* range(0, n, step) for step # 0, n >= 0: empty when step is negative.
Range(n, step) ==
  IF step < 0 THEN << >>
  ELSE [j \in 1..((n + step - 1) \div step) |-> (j - 1) * step]

\* words[i:j] for 0 <= i <= j (0-based, j exclusive, clamped to the end).
Slice(words, i, j) ==
  SubSeq(words, i + 1, IF j < Len(words) THEN j ELSE Len(words))

\* split_into_chunks that steps by chunk_size but slices one word less.
split_into_chunks_short_slice(text, chunk_size) ==
  LET words == Split(text)
      starts == Range(Len(words), chunk_size)
  IN  IF chunk_size = 0 THEN [raised |-> TRUE, chunks |-> << >>]
      ELSE [raised |-> FALSE,
            chunks |-> [j \in DOMAIN starts |->
               Join(<<" ">>, Slice(words, starts[j], starts[j] + chunk_size - 1))]]

\* LegalKnowledgeBase.split_into_chunks: range() raises ValueError for a
\* step of zero.
split_into_chunks(text, chunk_size) ==
  LET words == Split(text)
      starts == Range(Len(words), chunk_size)
  IN  IF chunk_size = 0 THEN [raised |-> TRUE, chunks |-> << >>]
      ELSE [raised |-> FALSE,
            chunks |-> [j \in DOMAIN starts |->
               Join(<<" ">>, Slice(words, starts[j], starts[j] + chunk_size))]]

\* add_legal_document numbering the chunks of a document from 1.
add_legal_document_from_one(docs, title, content) ==
  LET chunks == split_into_chunks(content, DefaultChunkSize).chunks
  IN  docs \o [i \in 1..Len(chunks) |->
                 [title |-> title, chunk_id |-> i, content |-> chunks[i]]]

\* LegalKnowledgeBase.add_legal_document: self.documents afterwards.  The
\* embedding stored with a chunk is model.encode(chunk), a function of the
\* chunk's content; it is read again only by search_relevant_docs.
add_legal_document(docs, title, content) ==
  LET chunks == split_into_chunks(content, DefaultChunkSize).chunks
  IN  docs \o [i \in 1..Len(chunks) |->
                 [title |-> title, chunk_id |-> i - 1, content |-> chunks[i]]]

\* The similarity of a chunk to a query: low or high.
SimilarityLevels == {0, 1}

\* cosine_similarity([query_embedding], self.embeddings)[0]: one level per
\* stored chunk; chunks of equal content have equal embeddings.
Similarities(docs) ==
  { sims \in [1..Len(docs) -> SimilarityLevels] :
      \A i, j \in 1..Len(docs) :
        docs[i].content = docs[j].content => sims[i] = sims[j] }

\* np.argsort(similarities): the indices in ascending order of similarity.
\* The default sort kind is not stable, so equal similarities come in any
\* order.
ArgSorts(sims) ==
  { p \in [1..Len(sims) -> 1..Len(sims)] :
      /\ \A i, j \in 1..Len(sims) : i # j => p[i] # p[j]
      /\ \A i, j \in 1..Len(sims) : i < j => sims[p[i]] <= sims[p[j]] }

\* a[-k:] for an integer k: the last k elements for k > 0, everything for
\* k = 0 (a[-0:] is a[0:]), everything from index -k on for k < 0.
TailSlice(a, k) ==
  IF k > 0 THEN SubSeq(a, IF Len(a) - k + 1 > 1 THEN Len(a) - k + 1 ELSE 1, Len(a))
  ELSE SubSeq(a, 1 - k, Len(a))

\* a[::-1]
Reverse(a) == [i \in 1..Len(a) |-> a[Len(a) + 1 - i]]

\* search_relevant_docs without the guard for an empty knowledge base:
\* cosine_similarity raises on an empty array.
search_relevant_docs_unguarded(docs, sims, argsort, top_k) ==
  IF docs = << >>
  THEN [raised |-> TRUE, top_indices |-> << >>, relevant_docs |-> << >>]
  ELSE LET top_indices == Reverse(TailSlice(argsort, top_k))
       IN  [raised |-> FALSE, top_indices |-> top_indices,
            relevant_docs |-> [i \in 1..Len(top_indices) |->
               [title |-> docs[top_indices[i]].title,
                chunk_id |-> docs[top_indices[i]].chunk_id,
                content |-> docs[top_indices[i]].content,
                similarity |-> sims[top_indices[i]]]]]

\* LegalKnowledgeBase.search_relevant_docs, given the similarities and the
\* index order np.argsort returns for them.
search_relevant_docs(docs, sims, argsort, top_k) ==
  IF docs = << >>
  THEN [raised |-> FALSE, top_indices |-> << >>, relevant_docs |-> << >>]
  ELSE LET top_indices == Reverse(TailSlice(argsort, top_k))
       IN  [raised |-> FALSE, top_indices |-> top_indices,
            relevant_docs |-> [i \in 1..Len(top_indices) |->
               [title |-> docs[top_indices[i]].title,
                chunk_id |-> docs[top_indices[i]].chunk_id,
                content |-> docs[top_indices[i]].content,
                similarity |-> sims[top_indices[i]]]]]

\* The characters of the texts split on their own.
TextAlphabet == {"a", " ", "\n"}

Texts == UNION { [1..n -> TextAlphabet] : n \in 0..MaxTextLen }

ChunkSizes == (-1)..MaxChunkSize

\* The documents added: no word, one word, two words on two lines, three
\* words, five words.
Contents ==
  { << >>,
    <<"a">>,
    <<"a","a"," ","\n"," ","a">>,
    <<" ","a"," ","a","a"," "," ","a","\n">>,
    <<"a"," ","a","a"," ","a"," ","a","a"," ","a">> }

Titles == {"contract_law", "employment_law"}

Queries == { << >>, <<"a">> }

\* top_k: from a negative value to more than the knowledge base can hold.
TopKs == (-1)..(MaxChunks + 1)

\* A process that has imported legal_rag_system and built an empty
\* LegalKnowledgeBase; the consultation loop is not running.
InitStore ==
  /\ pc = "library"
  /\ probe = [client |-> TRUE, list |-> "ok", cli |-> "skipped"]
  /\ OLLAMA_AVAILABLE = TRUE
  /\ OLLAMA_METHOD = "python"
  /\ knowledge_base = "none"
  /\ disk = "writable"
  /\ clock = 0
  /\ session_id = -1
  /\ conversation_history = << >>
  /\ user_input = << >>
  /\ responses = << >>
  /\ round_index = 0
  /\ follow_up_ais = << >>
  /\ gen_log = << >>
  /\ files = << >>
  /\ saved = {}
  /\ process = 1
  /\ queries = 0
  /\ faults = 0
  /\ interrupt = NoInterrupt
  /\ SPECIALIZED_PROMPTS_AVAILABLE = TRUE
  /\ documents = << >>
  /\ last = NoCall

\* The variables of the consultation loop.
loopVars ==
  << pc, probe, OLLAMA_AVAILABLE, OLLAMA_METHOD, knowledge_base, disk, clock,
     session_id, conversation_history, user_input, responses, round_index,
     follow_up_ais, gen_log, files, saved, process, queries, faults, interrupt,
     SPECIALIZED_PROMPTS_AVAILABLE >>

\* A call of split_into_chunks(text, chunk_size).  The call changes nothing
\* but the record of the last call, so a call after a call reaches the
\* states a first call reaches; only first calls are taken.
SplitIntoChunks ==
  /\ pc = "library"
  /\ last = NoCall
  /\ \E text \in Texts, chunk_size \in ChunkSizes :
       LET r == split_into_chunks(text, chunk_size)
       IN  last' = [op |-> "split", text |-> text, chunk_size |-> chunk_size,
                    raised |-> r.raised, chunks |-> r.chunks,
                    before |-> documents]
  /\ UNCHANGED documents
  /\ UNCHANGED loopVars

\* A call of add_legal_document(title, content).
AddLegalDocument ==
  /\ pc = "library"
  /\ \E title \in Titles, content \in Contents :
       /\ Len(add_legal_document(documents, title, content)) <= MaxChunks
       /\ documents' = add_legal_document(documents, title, content)
       /\ last' = [op |-> "add", title |-> title, content |-> content,
                   raised |-> FALSE, before |-> documents]
  /\ UNCHANGED loopVars

\* A call of search_relevant_docs(query, top_k).  A search leaves the
\* knowledge base as it is, so a search after a search reaches the states
\* the first one reaches; only searches of a new knowledge base are taken.
SearchRelevantDocs ==
  /\ pc = "library"
  /\ last.op # "search"
  /\ \E query \in Queries, top_k \in TopKs, sims \in Similarities(documents) :
       \E argsort \in ArgSorts(sims) :
         LET r == search_relevant_docs(documents, sims, argsort, top_k)
         IN  last' = [op |-> "search", query |-> query, top_k |-> top_k,
                      similarities |-> sims, raised |-> r.raised,
                      top_indices |-> r.top_indices,
                      relevant_docs |-> r.relevant_docs, before |-> documents]
  /\ UNCHANGED documents
  /\ UNCHANGED loopVars

NextChunk == SplitIntoChunks

\* split_into_chunks called on its own.
SpecChunk == InitStore /\ [][NextChunk]_vars

NextStore == AddLegalDocument \/ SearchRelevantDocs

\* A knowledge base that documents are added to and that is searched.
SpecStore == InitStore /\ [][NextStore]_vars

\* ------------------------------------------------------------------ claims

PersonaNames == {"Legal-AI", "Tech-AI", "Business-AI"}

\* Index of the newest user entry of a transcript (0: none).
LastUser(h) ==
  LET at == {i \in 1..Len(h) : h[i].speaker = "You"}
  IN  IF at = {} THEN 0 ELSE CHOOSE i \in at : \A j \in at : j <= i

\* The entries appended after the newest user entry.
TurnEntries(h) == SubSeq(h, LastUser(h) + 1, Len(h))

Speakers(h) == [i \in 1..Len(h) |-> h[i].speaker]

\* Some denylist keyword occurs in the text, letter case ignored.
Denylisted(text) ==
  \E kw \in unethical_keywords :
    \E i \in 0..(Len(text) - Len(kw)) :
      \A j \in 1..Len(kw) : LowerSym(text[i + j]) = kw[j]

\* The text is one of the quit tokens, letter case ignored.
QuitTokenTyped(text) ==
  \E tok \in { <<"q","u","i","t">>, <<"e","x","i","t">>, <<"q">> } :
    /\ Len(text) = Len(tok)
    /\ \A j \in 1..Len(tok) : LowerSym(text[j]) = tok[j]

\* The message reports an error instead of an answer.
ErrorMessage(m) ==
  /\ m # << >>
  /\ m[1] \in {"Error:", "CLI Error:", "Error generating response:"}

\* The generation of a logged call failed: its last backend invocation
\* raised, timed out or exited nonzero.
GenerationFailed(call) ==
  /\ call.calls # << >>
  /\ ~ call.calls[Len(call.calls)].ok

\* The artifact of the running session holds the given transcript.
PersistedAs(h) ==
  /\ filename(session_id) \in DOMAIN files
  /\ files[filename(session_id)].session_id = session_id
  /\ files[filename(session_id)].conversation_history = h

\* C1: a handled user input that contains a denylist keyword in any letter
\* case is answered by exactly the three canned refusals of Legal-AI, Tech-AI
\* and Business-AI, and no generation backend is called in that turn.
C1_BlockedTurn ==
  LET u == LastUser(conversation_history) IN
  (u > 0 /\ Denylisted(conversation_history[u].message)) =>
    /\ pc \in {"display", "input", "terminated"}
    /\ TurnEntries(conversation_history) =
         << [speaker |-> "Legal-AI",    message |-> legal_response],
            [speaker |-> "Tech-AI",     message |-> tech_response],
            [speaker |-> "Business-AI", message |-> business_response] >>
    /\ gen_log = << >>

\* C1 witness: a mixed-case "HaCk" turn has been answered.
C1_Witness ==
  LET u == LastUser(conversation_history) IN
  /\ u > 0
  /\ conversation_history[u].message = <<"H","a","C","k"," ","i","t">>
  /\ pc = "display"
  /\ Len(conversation_history) = u + 3

\* C2: when a persona's generation fails, its transcript entry is an error
\* message, and the round goes on: every generation call of the turn has its
\* entry, and once the loop is past the first round all three personas have
\* theirs.
C2_FailureTolerated ==
  LET te == TurnEntries(conversation_history) IN
  /\ \A i \in 1..Len(gen_log) :
       /\ i <= Len(te)
       /\ te[i].speaker = gen_log[i].persona
       /\ GenerationFailed(gen_log[i]) => ErrorMessage(te[i].message)
  /\ (/\ pc \in {"follow_up_check", "follow_up", "display", "input"}
      /\ LastUser(conversation_history) > 0
      /\ ~ Denylisted(conversation_history[LastUser(conversation_history)].message))
     => /\ Len(gen_log) >= 3
        /\ {gen_log[i].persona : i \in 1..3} = PersonaNames

\* C2 witness: Tech-AI's generation failed in a round that was completed.
C2_Witness ==
  /\ pc = "display"
  /\ Len(gen_log) >= 3
  /\ gen_log[2].persona = "Tech-AI"
  /\ GenerationFailed(gen_log[2])
  /\ ~ GenerationFailed(gen_log[1])
  /\ ~ GenerationFailed(gen_log[3])

\* C3: the first round of a non-blocked input appends one entry per persona
\* in the order Legal-AI, Tech-AI, Business-AI, each when that persona's
\* respond call completes: after n calls the turn holds the first n of
\* them, and at the end of the round exactly these three.
C3_FirstRoundOrder ==
  LET te    == TurnEntries(conversation_history)
      order == <<"Legal-AI", "Tech-AI", "Business-AI">>
  IN
  /\ pc = "first_round" =>
       /\ round_index \in 1..3
       /\ Speakers(te) = SubSeq(order, 1, round_index - 1)
  /\ pc = "follow_up_check" => Speakers(te) = order
  /\ (/\ pc \in {"follow_up", "display", "input"}
      /\ LastUser(conversation_history) > 0
      /\ ~ Denylisted(conversation_history[LastUser(conversation_history)].message))
     => /\ Len(te) >= 3
        /\ SubSeq(Speakers(te), 1, 3) = order

\* C3 witness: a first round has just ended.
C3_Witness ==
  /\ pc = "follow_up_check"
  /\ Len(TurnEntries(conversation_history)) = 3

\* C4: every persona entry of the transcript has a nonempty message.
C4_NonemptyMessages ==
  \A i \in 1..Len(conversation_history) :
    conversation_history[i].speaker \in PersonaNames
      => conversation_history[i].message # << >>

\* C5: a session ended by a keyboard interruption has persisted exactly the
\* entries appended before the interruption, in their order.
C5_InterruptPersists ==
  (pc \in {"terminated", "crashed"} /\ interrupt # NoInterrupt) =>
    /\ pc = "terminated"
    /\ PersistedAs(interrupt.history)

\* C5 witness: the interruption came inside a first round, after Legal-AI's
\* entry and before Tech-AI's.
C5_Witness ==
  /\ pc = "terminated"
  /\ interrupt.at = "first_round"
  /\ Speakers(interrupt.history) = <<"System", "You", "Legal-AI">>

\* C6: reading a quit token (quit, exit or q, in any letter case) persists
\* the full transcript and terminates the session in that step, and a
\* terminated session has always persisted its transcript.
C6_QuitPersists ==
  /\ [](pc = "terminated" => PersistedAs(conversation_history))
  /\ [][(pc = "input" /\ interrupt' = interrupt /\ QuitTokenTyped(user_input'))
          => (pc' = "terminated" /\ PersistedAs(conversation_history)'
              /\ conversation_history' = conversation_history)]_vars

\* C6 witness: an upper-case QUIT ended a session after a handled query.
C6_Witness ==
  /\ pc = "terminated"
  /\ interrupt = NoInterrupt
  /\ user_input = <<"Q","U","I","T">>
  /\ Len(conversation_history) >= 5

\* The live backend's liveness probe succeeded.
LiveProbeSucceeds == probe.client /\ probe.list = "ok"

\* The command-line tool's probe succeeded.
CliProbeSucceeds == probe.cli = "zero"

\* C7: after startup the backend is the live one when its probe succeeds,
\* the subprocess one when that probe fails and the command-line probe
\* succeeds, and the scripted stand-in only when both probes fail.
C7_SelectionOrder ==
  pc # "import" =>
    /\ LiveProbeSucceeds => (OLLAMA_AVAILABLE /\ OLLAMA_METHOD = "python")
    /\ (~ LiveProbeSucceeds /\ CliProbeSucceeds)
         => (OLLAMA_AVAILABLE /\ OLLAMA_METHOD = "cli")
    /\ ~ OLLAMA_AVAILABLE => (~ LiveProbeSucceeds /\ ~ CliProbeSucceeds)

\* The backend variant the startup state names.
SelectedVariant ==
  IF OLLAMA_AVAILABLE THEN OLLAMA_METHOD ELSE "mock"

\* C8 as stated: the backend state is what startup selected, and every
\* backend invocation of every generation call is one of the selected
\* variant.
C8_Original ==
  pc # "import" =>
    /\ OLLAMA_AVAILABLE = SelectBackend(probe).available
    /\ OLLAMA_METHOD = SelectBackend(probe).method
    /\ \A i \in 1..Len(gen_log) : \A j \in 1..Len(gen_log[i].calls) :
      gen_log[i].calls[j].backend = SelectedVariant

\* C8 amended: the backend state is never written after startup; every
\* generation call is first tried on the selected variant; the only other
\* variant ever invoked is the subprocess, as the second try of a call whose
\* live try failed; the scripted stand-in is invoked only when selected.
C8_StableBackend ==
  /\ [][pc # "import" => UNCHANGED << OLLAMA_AVAILABLE, OLLAMA_METHOD >>]_vars
  /\ [](pc # "import" =>
         \A i \in 1..Len(gen_log) :
           LET calls == gen_log[i].calls IN
           /\ Len(calls) \in {1, 2}
           /\ calls[1].backend = SelectedVariant
           /\ Len(calls) = 2 =>
                /\ SelectedVariant = "python"
                /\ ~ calls[1].ok
                /\ calls[2].backend = "cli")

\* C8 witness: a live call failed and the subprocess served it.
C8_Witness ==
  \E i \in 1..Len(gen_log) :
    /\ Len(gen_log[i].calls) = 2
    /\ gen_log[i].calls[2].backend = "cli"
    /\ gen_log[i].calls[2].ok

\* s is a prefix of t.
IsPrefix(s, t) == Len(s) <= Len(t) /\ SubSeq(t, 1, Len(s)) = s

\* C9: every step of a session leaves the transcript it found as a prefix
\* of the transcript it leaves.
C9_AppendOnly ==
  [][IsPrefix(conversation_history, conversation_history')]_vars

\* C9 witness: a transcript that grew over a whole turn with a follow-up.
C9_Witness ==
  /\ pc = "display"
  /\ Len(conversation_history) >= 6

\* C10: the session identifier set at startup names the artifact of the
\* session, and two distinct sessions never persist to the same name.
C10_UniqueArtifact ==
  /\ \A r \in saved : r.process = process => r.name = filename(session_id)
  /\ \A a \in saved : \A b \in saved : a.process # b.process => a.name # b.name

\* C11: a search with top_k = k on a knowledge base of n chunks returns
\* exactly min(k, n) results, in order of non-increasing similarity.
C11_TopKResults ==
  (last.op = "search" /\ last.top_k >= 0) =>
    /\ ~ last.raised
    /\ Len(last.relevant_docs) =
         (IF last.top_k < Len(documents) THEN last.top_k ELSE Len(documents))
    /\ \A i, j \in 1..Len(last.relevant_docs) :
         i < j => last.relevant_docs[i].similarity
                    >= last.relevant_docs[j].similarity

\* C12: a search of an empty knowledge base returns the empty sequence and
\* does not raise, whatever the query text and top_k.
C12_EmptyStoreSearch ==
  (last.op = "search" /\ documents = << >>) =>
    /\ ~ last.raised
    /\ last.relevant_docs = << >>

\* C12 witness: an empty knowledge base searched for a text with top_k = 3.
C12_Witness ==
  /\ last.op = "search"
  /\ documents = << >>
  /\ last.query = <<"a">>
  /\ last.top_k = 3

\* C13: of two results of a search with equal similarity, the chunk
\* inserted earlier comes first.
C13_TiesByInsertion ==
  last.op = "search" =>
    \A i, j \in 1..Len(last.top_indices) :
      (i < j /\ last.similarities[last.top_indices[i]]
                  = last.similarities[last.top_indices[j]])
        => last.top_indices[i] < last.top_indices[j]

\* The maximal runs of non-whitespace characters of a text, each as its
\* first and last position.
WordRuns(text) ==
  { r \in (1..Len(text)) \X (1..Len(text)) :
      /\ r[1] <= r[2]
      /\ \A i \in r[1]..r[2] : text[i] \notin {" ", "\n", "\t"}
      /\ r[1] = 1 \/ text[r[1] - 1] \in {" ", "\n", "\t"}
      /\ r[2] = Len(text) \/ text[r[2] + 1] \in {" ", "\n", "\t"} }

\* The whitespace-delimited words of a text, in their order.
WordsOf(text) ==
  LET runs == WordRuns(text)
  IN  [k \in 1..Cardinality(runs) |->
         LET r == CHOOSE r \in runs :
                    Cardinality({q \in runs : q[1] < r[1]}) = k - 1
         IN  SubSeq(text, r[1], r[2])]

\* C14: for a chunk size above zero, the words of the chunks of a text,
\* chunk after chunk, are the words of the text, none lost, duplicated or
\* moved; and the call leaves the knowledge base as it was.
C14_ChunksKeepWords ==
  (last.op = "split" /\ last.chunk_size > 0) =>
    /\ ~ last.raised
    /\ Concat([i \in 1..Len(last.chunks) |-> WordsOf(last.chunks[i])])
         = WordsOf(last.text)
    /\ documents = last.before

\* C14 witness: three words on two lines split into chunks of two words
\* and of one word.
C14_Witness ==
  /\ last.op = "split"
  /\ last.chunk_size = 2
  /\ last.text = <<"a", "\n", "a", " ", "a">>
  /\ Len(last.chunks) = 2

\* C15: split_into_chunks with a chunk size of zero or below ends in an
\* error and returns no result.
C15_InvalidChunkSize ==
  (last.op = "split" /\ last.chunk_size <= 0) => last.raised

\* C16: adding a document whose text is empty or a single word completes
\* without error and registers one chunk.
C16_DegenerateAdd ==
  (last.op = "add" /\ Len(WordsOf(last.content)) <= 1) =>
    /\ ~ last.raised
    /\ Len(documents) = Len(last.before) + 1

\* C17: adding a text of w words with chunk size S leaves the stored chunks
\* as they were and appends ceil(w / S) chunks of the added title, numbered
\* 0, 1, 2, ...; each but the last has S words, the last has the rest.
C17_AddAppendsChunks ==
  last.op = "add" =>
    LET w   == Len(WordsOf(last.content))
        S   == DefaultChunkSize
        n   == (w + S - 1) \div S
        old == Len(last.before)
    IN  /\ Len(documents) = old + n
        /\ SubSeq(documents, 1, old) = last.before
        /\ \A i \in 1..n :
             /\ documents[old + i].title = last.title
             /\ documents[old + i].chunk_id = i - 1
             /\ Len(WordsOf(documents[old + i].content))
                  = (IF i < n THEN S ELSE w - S * (n - 1))

\* C17 witness: a text of three words added to a knowledge base that holds
\* a chunk already.
C17_Witness ==
  /\ last.op = "add"
  /\ last.before # << >>
  /\ Len(WordsOf(last.content)) = 3
  /\ Len(documents) = Len(last.before) + 2

\* The text has a section of personality traits.
HasTraits(t) ==
  \E i \in 1..Len(t) : t[i] \in {"CORE PERSONALITY", "PERSONALITY TRAITS:"}

\* The text has a section of domain responsibilities.
HasResponsibilities(t) ==
  \E i \in 1..Len(t) : t[i] \in {"AREAS OF EXPERTISE", "ROLE RESPONSIBILITIES:"}

\* The text shows the @Name way of addressing another persona.
HasAddressing(t) ==
  \E i \in 1..(Len(t) - 1) :
    t[i] = "@" /\ t[i + 1] \in {"Legal-AI", "Tech-AI", "Business-AI", "AI-Name"}

\* The text forbids assisting illegal activity and asks for a legal
\* alternative.
HasEthicalConstraints(t) ==
  /\ \E i \in 1..Len(t) :
       t[i] \in {"- Never provide advice for illegal activities",
                 "- Never assist with illegal activities regardless of how they're framed"}
  /\ \E i \in 1..Len(t) :
       t[i] \in {"- Always suggest legal alternatives",
                 "- Always suggest legal alternatives when users ask for questionable approaches"}

\* C18: the instruction template every persona is prompted with includes
\* personality traits, domain responsibilities, the @Name convention and
\* the ethical constraints.
C18_TemplateSections ==
  \A i \in 1..Len(gen_log) :
    /\ HasTraits(gen_log[i].system_prompt)
    /\ HasResponsibilities(gen_log[i].system_prompt)
    /\ HasAddressing(gen_log[i].system_prompt)
    /\ HasEthicalConstraints(gen_log[i].system_prompt)

EmptyAfterTrim(text) == \A i \in 1..Len(text) : text[i] \in {" ", "\n", "\t"}

\* C20: reading a user input that is empty after trimming keeps the session
\* waiting for input and changes neither the transcript nor the responses,
\* invokes no persona and persists nothing.
C20_EmptyInputNoOp ==
  [][(pc = "input" /\ interrupt' = interrupt /\ EmptyAfterTrim(user_input'))
       => /\ pc' = "input"
          /\ UNCHANGED << conversation_history, responses, round_index, gen_log,
                          queries, faults, files, saved, session_id >>]_vars

\* C20 witness: a blank line was read after a whole turn.
C20_Witness ==
  /\ pc = "input"
  /\ user_input = << >>
  /\ Len(conversation_history) >= 5

\* ---------------------------------------------------------------------
\* Rounds, prompts and backends per call.

\* The persona key of a persona name.
KeyOf(name) == CHOOSE k \in AiKeys : AiName[k] = name

\* The transcript as it stood when the running turn's first round began:
\* everything up to and including the newest user entry.
RoundStart(h) == SubSeq(h, 1, LastUser(h))

\* C21: the prompt of every first-round call is the prompt the persona
\* would have been given had no other persona answered the query yet; it
\* does not depend on the responses produced earlier in the same round.
C21_FirstRoundIndependent ==
  \A i \in 1..Len(gen_log) :
    gen_log[i].round = 1 =>
      gen_log[i].prompt =
        full_prompt(KeyOf(gen_log[i].persona), gen_log[i].user_input,
                    RoundStart(gen_log[i].history), << >>, knowledge_base)

\* Position of a persona in the registration order of setup_ai_personas.
RegistrationIndex(name) ==
  CHOOSE i \in 1..Len(setup_ai_personas) : AiName[setup_ai_personas[i]] = name

\* C22: within every round of a turn, the follow-up round included, the
\* personas respond in registration order: Legal-AI before Tech-AI before
\* Business-AI.
C22_RegistrationOrder ==
  \A i, j \in 1..Len(gen_log) :
    (i < j /\ gen_log[i].round = gen_log[j].round) =>
      RegistrationIndex(gen_log[i].persona) < RegistrationIndex(gen_log[j].persona)

\* The text t ends with the text s.
IsSuffix(s, t) ==
  /\ Len(s) <= Len(t)
  /\ SubSeq(t, Len(t) - Len(s) + 1, Len(t)) = s

\* The lines "speaker: message" of a list of responses, joined by newlines.
PeerLines(rs) ==
  Join(<<NL>>, [i \in 1..Len(rs) |-> rs[i].speaker \o <<":", " ">> \o rs[i].message])

\* C23: a follow-up round has 1 or 2 distinct personas; each of them adds
\* exactly one transcript entry after the 3 first-round entries of the turn,
\* and the peer responses handed to its call, which start with the 3
\* first-round responses, are the closing lines of its prompt's context.
C23_FollowUpRound ==
  /\ pc = "follow_up" =>
       /\ Len(follow_up_ais) \in {1, 2}
       /\ \A i, j \in 1..Len(follow_up_ais) :
            i # j => follow_up_ais[i] # follow_up_ais[j]
  /\ \A i \in 1..Len(gen_log) :
       gen_log[i].round = 2 =>
         LET call == gen_log[i]
             te   == TurnEntries(conversation_history)
         IN  /\ i > 3
             /\ i - 3 <= Len(follow_up_ais)
             /\ \A j \in 1..3 : gen_log[j].round = 1
             /\ call.persona = AiName[follow_up_ais[i - 3]]
             /\ \A j \in 4..Len(gen_log) :
                  j # i => gen_log[j].persona # call.persona
             /\ Len(TurnEntries(call.history)) = i - 1
             /\ Len(te) >= i
             /\ te[i].speaker = call.persona
             /\ te[i].message = call.text
             /\ Len(call.peers) = i - 1
             /\ \A j \in 1..3 :
                  /\ call.peers[j].speaker = <<gen_log[j].persona>>
                  /\ call.peers[j].message = gen_log[j].text
             /\ IsSuffix(PeerLines(call.peers), call.context)
             /\ Contains(call.prompt, call.context)
  /\ pc \in {"display", "input"} /\ Len(gen_log) > 3 =>
       /\ Len(gen_log) = 3 + Len(follow_up_ais)
       /\ Len(TurnEntries(conversation_history)) = Len(gen_log)

\* C23 witness: a follow-up round of two personas has ended.
C23_Witness ==
  /\ pc = "display"
  /\ Len(gen_log) = 5
  /\ gen_log[4].round = 2
  /\ gen_log[5].round = 2
  /\ Len(TurnEntries(conversation_history)) = 5

\* The lines "speaker: message" of the non-System entries among the last
\* 10 entries of a transcript, joined by newlines.
WindowLines(h) ==
  LET tail == SelectNonSystem(LastN(h, 10))
  IN  Join(<<NL>>, [i \in 1..Len(tail) |->
                      <<tail[i].speaker, ":", " ">> \o tail[i].message])

\* C24: the context section of every prompt holds every non-System entry
\* among the last 10 entries of the transcript, in transcript order, with
\* or without peer responses.
C24_ContextWindow ==
  \A i \in 1..Len(gen_log) :
    Contains(gen_log[i].context, WindowLines(gen_log[i].history))

\* The intent the scripted stand-in detects in a user query.
Intent(query) ==
  IF AnyIn(Lower(query), GreetingWords) THEN "greeting"
  ELSE IF AnyIn(Lower(query), ScrapeWords) THEN "scrape"
  ELSE IF AnyIn(Lower(query), TrackWords) THEN "track"
  ELSE "other"

\* The logged call was served by the scripted stand-in.
ServedByMock(call) ==
  \E n \in 1..Len(call.calls) : call.calls[n].backend = "mock"

\* C25: a call of persona P served by the scripted stand-in returns P's own
\* canned response for the intent of the user's query, never a canned
\* response of another persona.
C25_MockKeyedByPersona ==
  \A i \in 1..Len(gen_log) :
    ServedByMock(gen_log[i]) =>
      gen_log[i].text =
        MockResponses[KeyOf(gen_log[i].persona)][Intent(gen_log[i].user_input)]

\* The logged call reached the subprocess backend.
ServedByCli(call) ==
  \E n \in 1..Len(call.calls) : call.calls[n].backend = "cli"

\* C26: the compacted prompt the subprocess backend passes to the external
\* tool for a call of persona P names P, names no other persona, and holds
\* the user's query.
C26_ShortPromptNamesPersona ==
  \A i \in 1..Len(gen_log) :
    ServedByCli(gen_log[i]) =>
      /\ Contains(gen_log[i].short_prompt, <<gen_log[i].persona>>)
      /\ \A other \in PersonaNames \ {gen_log[i].persona} :
           ~ Contains(gen_log[i].short_prompt, <<other>>)
      /\ Contains(gen_log[i].short_prompt, gen_log[i].user_input)

\* The persona whose call is next in the running round.
NextPersona ==
  IF pc = "first_round" THEN setup_ai_personas[round_index]
  ELSE follow_up_ais[round_index]

\* C27: an exception other than a keyboard interruption raised while a turn
\* is handled (the knowledge-base query of Legal-AI's call raises, or
\* open() raises while persisting after a quit token) returns the loop to
\* the input prompt in that step, persists nothing and leaves the transcript
\* as it was; the process ends abnormally only through a keyboard
\* interruption.
C27_ExceptionContinues ==
  /\ [](pc = "crashed" => interrupt # NoInterrupt)
  /\ [][(/\ pc \in {"first_round", "follow_up"}
         /\ NextPersona = "legal"
         /\ knowledge_base = "broken"
         /\ interrupt' = interrupt)
          => (/\ pc' = "input"
              /\ conversation_history' = conversation_history
              /\ files' = files
              /\ saved' = saved)]_vars
  /\ [][(/\ pc = "input"
         /\ disk = "unwritable"
         /\ QuitTokenTyped(user_input')
         /\ interrupt' = interrupt)
          => (/\ pc' = "input"
              /\ conversation_history' = conversation_history
              /\ files' = files
              /\ saved' = saved)]_vars

\* C27 witness: the knowledge-base query raised in Legal-AI's first-round
\* call; the session awaits input again, the user entry is the newest entry
\* of the transcript and nothing was persisted.
C27_Witness ==
  /\ pc = "input"
  /\ knowledge_base = "broken"
  /\ interrupt = NoInterrupt
  /\ Len(conversation_history) = 2
  /\ LastUser(conversation_history) = 2
  /\ files = << >>

\* ---------------------------------------------------------------------
\* Shape of the transcript.

UserIndexes(h) == {i \in 1..Len(h) : h[i].speaker = "You"}

\* The entries between the user entry at index u and the next user entry.
TurnOf(h, u) ==
  LET later == {j \in UserIndexes(h) : j > u}
      end   == IF later = {} THEN Len(h)
               ELSE (CHOOSE j \in later : \A l \in later : j <= l) - 1
  IN  SubSeq(h, u + 1, end)

\* The three refusal entries of a blocked query.
Refusals ==
  << [speaker |-> "Legal-AI", message |-> legal_response],
     [speaker |-> "Tech-AI", message |-> tech_response],
     [speaker |-> "Business-AI", message |-> business_response] >>

\* Exactly one System entry, which is the first entry and is followed by a
\* user entry if by anything.
OneSystemFirst(h) ==
  /\ h # << >>
  /\ h[1].speaker = "System"
  /\ \A i \in 2..Len(h) : h[i].speaker # "System"
  /\ Len(h) >= 2 => h[2].speaker = "You"

\* The persona entries of a generated turn as far as they go: the first
\* round in registration order, then at most 2 follow-up entries of distinct
\* personas.
RoundsPrefix(seg) ==
  /\ Len(seg) <= 5
  /\ \A i \in 1..Len(seg) : seg[i].speaker \in PersonaNames
  /\ \A i \in 1..Len(seg) : i <= 3 => seg[i].speaker = AiName[setup_ai_personas[i]]
  /\ \A i, j \in 4..Len(seg) : i # j => seg[i].speaker # seg[j].speaker

\* The persona entries of a finished turn for the query q.
CompleteTurn(q, seg) ==
  IF Denylisted(q) THEN seg = Refusals
  ELSE Len(seg) >= 3 /\ RoundsPrefix(seg)

\* The persona entries of a turn for the query q that may still be running.
PartialTurn(q, seg) ==
  IF Denylisted(q) THEN IsPrefix(seg, Refusals)
  ELSE RoundsPrefix(seg)

C29_ResponsesMatchTranscript ==
  pc \in {"first_round", "follow_up_check", "follow_up", "display"} =>
    LET te == TurnEntries(conversation_history)
    IN  /\ Len(responses) = Len(te)
        /\ \A i \in 1..Len(responses) :
             /\ responses[i].message = te[i].message
             /\ AiName[responses[i].ai_key] = te[i].speaker
             /\ responses[i].speaker =
                  IF i > 3 THEN <<te[i].speaker, " (follow-up)">>
                  ELSE <<te[i].speaker>>

\* C29 witness: a turn with a follow-up response is on display.
C29_Witness ==
  /\ pc = "display"
  /\ Len(responses) >= 4
  /\ responses[4].speaker[2] = " (follow-up)"
  /\ Len(TurnEntries(conversation_history)) = Len(responses)

\* C30: once the module body has run, the availability flag is true exactly
\* when the method is "python" or "cli" and false exactly when it is "mock"
\* or "none"; every generate_response call went through a backend and
\* returned a text, none fell through the method dispatch.
C30_BackendConsistent ==
  pc # "import" =>
    /\ OLLAMA_METHOD \in {"python", "cli", "mock", "none"}
    /\ OLLAMA_AVAILABLE <=> OLLAMA_METHOD \in {"python", "cli"}
    /\ (~ OLLAMA_AVAILABLE) <=> OLLAMA_METHOD \in {"mock", "none"}
    /\ \A i \in 1..Len(gen_log) :
         /\ ~ gen_log[i].none
         /\ gen_log[i].calls # << >>

\* C30 witness: the probing forced the scripted stand-in, and a turn was
\* answered with it.
C30_Witness ==
  /\ pc = "display"
  /\ OLLAMA_METHOD = "mock"
  /\ ~ OLLAMA_AVAILABLE
  /\ gen_log # << >>
  /\ ServedByMock(gen_log[1])

====
